---- MODULE Spec2Model ----
(***************************************************************************)
(* curtin/block/clear_holders.py: shutting down the virtual storage layers *)
(* (bcache, md, device-mapper/LVM) that hold a block device.               *)
(*                                                                         *)
(* The model is the recursive walk clear_holders over the sysfs holder     *)
(* graph, the three layer handlers, get_holders and the strict entry point *)
(* check_clear.  Python's call stack is the variable `stack`; an exception *)
(* that no frame catches unwinds the whole stack in the step that raises   *)
(* it, because neither clear_holders nor check_clear has a try/except or a *)
(* `with` block around the calls that can raise it.                        *)
(***************************************************************************)
EXTENDS Integers, Sequences, FiniteSets, TLC

(***************************************************************************)
(* Bounds of the model.                                                    *)
(***************************************************************************)
\* holder links and layer marker directories in the initial sysfs tree
MaxEntries == 3
\* depth of the Python call stack of clear_holders (a cyclic graph recurses
\* without bound; the model stops pushing frames at this depth)
MaxDepth == 4
\* removals that the rest of the system makes while the walk runs
MaxVanish == 1
\* top-level calls made one after the other on the same sysfs tree
MaxCalls == 2

\* block devices of the modelled system
Nodes == {"sda", "md0", "dm0"}
\* a device reference that names no block device of the system
NoDevice == "nodev"
\* the keys of holder_types
LayerTypes == {"bcache", "md", "dm"}
\* exit statuses of the lvremove process: success, "already removed", other
ExitCodes == {0, 1, 5}
\* Python's None
None == "None"

\* contents of <device>/dm/name, as the components between the hyphens;
\* NoFile stands for a file that cannot be read
NoFile == <<>>
Contents == {<<"myvg", "mylv">>, <<"garbage">>}

VARIABLES
    exists,     \* exists[n]: sys_block_path resolves n
    holders,    \* holders[n]: the entries of <n>/holders, as listed
    hdir,       \* hdir[n]: the directory <n>/holders can be listed
    markers,    \* markers[n]: which of <n>/bcache, <n>/md, <n>/dm exist
    dmfile,     \* dmfile[n]: contents of <n>/dm/name
    stack,      \* frames of clear_holders, the innermost last
    status,     \* "idle", "running", "returned" or "raised"
    entry,      \* the caller the top-level clear_holders returned to
    arg,        \* the device passed to the entry point
    result,     \* the (success, errors) pair clear_holders returned
    fault,      \* the exception that left the entry point
    logged,     \* the errors written by LOG.warn, in order
    cmds,       \* the external commands run by util.subp, in order
    forgiven,   \* every error a catcher of the walk has collected, in order
    vanished,   \* number of removals made by the rest of the system
    past        \* how the earlier top-level calls ended, the oldest first

fsvars == <<exists, holders, hdir, markers, dmfile>>
vars == <<exists, holders, hdir, markers, dmfile, stack, status, entry, arg,
          result, fault, logged, cmds, forgiven, vanished, past>>

(***************************************************************************)
(* Exceptions.  Every exception is a record: its Python type, the call     *)
(* that raised it, the device it is about, the exit status of the process  *)
(* (0 when there is none) and the value formatted into its message.        *)
(***************************************************************************)
Exc(type, what, node, code, about) ==
    [type |-> type, what |-> what, node |-> node, code |-> code, about |-> about]

\* no exception
NoExc == Exc("none", "none", "none", 0, <<>>)

\* the OSError that block.sys_block_path, os.listdir or util.load_file raise
IoError(what, node) == Exc("OSError", what, node, 0, <<>>)

\* util.ProcessExecutionError: util.subp saw a nonzero exit status
ProcessExecutionError(node, code) ==
    Exc("ProcessExecutionError", "lvremove", node, code, <<>>)

\* a local variable read before any assignment to it
UnboundLocalError(name, node) == Exc("UnboundLocalError", name, node, 0, <<>>)

\* "cannot unpack non-iterable NoneType object"
TypeError(node) == Exc("TypeError", "unpack None", node, 0, <<>>)

\* str(x) as '{}'.format(x) gives it, for a device and for an exception
StrDevice(d) == <<d>>
StrExc(e) == <<e.type, e.what, e.node, e.code>>

\* util.ForgiveIoError.__exit__: an IOError or OSError raised inside the
\* guarded block is appended to caught and execution resumes after the block
ForgiveIoError(caught, e) ==
    IF e.type \in {"OSError", "ProcessExecutionError"}
    THEN [forgiven |-> TRUE, caught |-> Append(caught, e)]
    ELSE [forgiven |-> FALSE, caught |-> caught]

(***************************************************************************)
(* The external collaborators, as reads of the sysfs tree.                 *)
(***************************************************************************)
\* block.sys_block_path(device): the canonical path, or OSError
sys_block_path(device) ==
    IF device \in Nodes /\ exists[device]
    THEN [raised |-> NoExc, path |-> device]
    ELSE [raised |-> IoError("sys_block_path", device), path |-> None]

\* os.listdir(<sysfs_path>/holders)
listdir_holders(device) ==
    IF device \in Nodes /\ exists[device] /\ hdir[device]
    THEN [raised |-> NoExc, names |-> holders[device]]
    ELSE [raised |-> IoError("listdir", device), names |-> <<>>]

\* util.load_file(<device>/dm/name)
load_file_dm_name(device) ==
    IF device \in Nodes /\ exists[device] /\ dmfile[device] # NoFile
    THEN [raised |-> NoExc, data |-> dmfile[device]]
    ELSE [raised |-> IoError("load_file", device), data |-> NoFile]

\* os.path.exists(<device>/<type_name>)
marker_exists(device, type_name) ==
    device \in Nodes /\ exists[device] /\ type_name \in markers[device]

(***************************************************************************)
(* split_vg_lv_name: the stub returns (None, None) whatever the name is.   *)
(***************************************************************************)
split_vg_lv_name(full_name) == <<None, None>>

\* "{}/{}".format(vg_name, lv_name)
VgLvPath(vg_name, lv_name) == <<vg_name, "/", lv_name>>

\* line 85 aimed at the volume group
VgremoveCmd(vg_name, lv_name) ==
    <<"vgremove", "--force", "--force", <<vg_name>>>>

\* the argv of line 85
LvremoveCmd(vg_name, lv_name) ==
    <<"lvremove", "--force", "--force", VgLvPath(vg_name, lv_name)>>

(***************************************************************************)
(* The layer handlers.  A handler's outcome is a record: `raised` is the   *)
(* exception it lets escape (NoExc when it returns), `ret` what it returns *)
(* (None, or the pair <<wipe_cmd, errors>>), `ran` the commands it ran     *)
(* with their exit status.                                                 *)
(***************************************************************************)
\* `pass`: the function returns None
shutdown_bcache(device) == [raised |-> NoExc, ret |-> None, ran |-> <<>>]

shutdown_mdadm(device) == [raised |-> NoExc, ret |-> None, ran |-> <<>>]

\* line 90 with every exit status re-raised
ToleratedNever(exit_code) == FALSE

\* line 90 with no exit status re-raised
ToleratedAlways(exit_code) == TRUE

\* line 90: the failure is re-raised unless the exit status is 5
Tolerated(exit_code) == exit_code = 5

\* shutdown_lvm, with exit_code the status util.subp sees if it runs lvremove
shutdown_lvm(device, exit_code) ==
    LET file == load_file_dm_name(device)
        names == split_vg_lv_name(file.data)
        \* the guarded block of lines 59-66
        inblock ==
            IF file.raised # NoExc THEN file.raised
            ELSE IF names[1] = None \/ names[2] = None
                 THEN IoError("missing or has invalid contents", device)
                 ELSE NoExc
        caught == IF inblock = NoExc THEN <<>>
                  ELSE ForgiveIoError(<<>>, inblock).caught
        cmd == LvremoveCmd(names[1], names[2])
        run == [argv |-> cmd, exit |-> exit_code, node |-> device]
        e == ProcessExecutionError(device, exit_code)
    IN  IF file.raised # NoExc
        \* load_file raised before vg_name and lv_name were assigned, and
        \* line 85 reads them
        THEN [raised |-> UnboundLocalError("vg_name", device),
              ret |-> None, ran |-> <<>>]
        ELSE IF exit_code = 0
        THEN [raised |-> NoExc, ret |-> <<None, caught>>, ran |-> <<run>>]
        ELSE IF Tolerated(exit_code)
        THEN [raised |-> NoExc, ret |-> <<None, Append(caught, e)>>,
              ran |-> <<run>>]
        ELSE [raised |-> e, ret |-> None, ran |-> <<run>>]

\* holder_types[type_name](device)
Handler(type_name, device, exit_code) ==
    CASE type_name = "bcache" -> shutdown_bcache(device)
      [] type_name = "md" -> shutdown_mdadm(device)
      [] type_name = "dm" -> shutdown_lvm(device, exit_code)

(***************************************************************************)
(* get_holders.  `raised` is the exception that escapes it.                *)
(***************************************************************************)
\* get_holders returning no errors, whatever its catcher caught
get_holders_silent(device) ==
    LET path == sys_block_path(device)
        ls == listdir_holders(device)
    IN  IF path.raised # NoExc
        THEN [raised |-> UnboundLocalError("sysfs_path", device),
              names |-> <<>>, errs |-> <<>>]
        ELSE [raised |-> NoExc, names |-> ls.names, errs |-> <<>>]

get_holders(device) ==
    LET path == sys_block_path(device)
        c1 == IF path.raised = NoExc THEN <<>>
              ELSE ForgiveIoError(<<>>, path.raised).caught
        ls == listdir_holders(device)
        c2 == IF ls.raised = NoExc THEN c1
              ELSE ForgiveIoError(c1, ls.raised).caught
    IN  IF path.raised # NoExc
        \* sysfs_path was never assigned and line 114 reads it
        THEN [raised |-> UnboundLocalError("sysfs_path", device),
              names |-> <<>>, errs |-> c1]
        ELSE [raised |-> NoExc, names |-> ls.names, errs |-> c2]

(***************************************************************************)
(* The frames of clear_holders.  pc is the place the call has reached:     *)
(* "enter" (line 140), "loop" (the for loop of line 157, at holders[i]),   *)
(* "handlers" (the loop of line 181, todo the types still to visit),       *)
(* "wipe" (line 190), "requery" (line 194), "return" (a return statement   *)
(* has produced <<res, caught>>).  results, ran, via, rq and nbefore are   *)
(* history: the verdicts of the recursive calls, the handlers invoked, the *)
(* return statement taken, what the final get_holders returned and the     *)
(* length of caught before it; swept tells that the loop of line 190 has   *)
(* been passed.                                                            *)
(***************************************************************************)
NoQuery == [names |-> <<>>, errs |-> <<>>]

NewFrame(device) ==
    [device |-> device, pc |-> "enter", holders |-> <<>>, i |-> 0,
     caught |-> <<>>, todo |-> {}, wipe_cmds |-> <<>>, res |-> FALSE,
     results |-> <<>>, ran |-> <<>>, via |-> "none", rq |-> NoQuery,
     nbefore |-> 0, swept |-> FALSE]

Top == stack[Len(stack)]

SetTop(f) == [stack EXCEPT ![Len(stack)] = f]

\* the directory listings with the entries S, in any order
Listings(S) ==
    {s \in [1..Cardinality(S) -> S] : \A a, b \in 1..Cardinality(S) :
                                          s[a] = s[b] => a = b}

\* a listing without the entry n
RECURSIVE Without(_, _)
Without(s, n) ==
    IF s = <<>> THEN <<>>
    ELSE IF Head(s) = n THEN Without(Tail(s), n)
    ELSE <<Head(s)>> \o Without(Tail(s), n)

Entries(s) == {s[k] : k \in 1..Len(s)}

\* line 162 resolving the holders directory's own device
holder_realpath_device(device, holder) == device

\* os.path.realpath(os.path.join(device, "holders", holder)): the device the
\* link names; realpath resolves what it can and raises nothing, so
\* holder_realpath is never empty and line 165 is never reached
holder_realpath(device, holder) == holder

\* an exception that nothing catches leaves clear_holders, every caller's
\* frame of it and check_clear
Raise(e) ==
    /\ stack' = <<>>
    /\ status' = "raised"
    /\ fault' = e
    /\ UNCHANGED <<result, logged>>

\* line 196 without the test of _err
FinalVerdictNamesOnly(names, errs) == Len(names) = 0

\* line 196: the verdict from the final get_holders
FinalVerdict(names, errs) == Len(names) = 0 /\ Len(errs) = 0

\* line 169 without the extend
ExtendNot(caught, _err) == caught

\* line 169: catcher.caught.extend(_err)
Extend(caught, _err) == caught \o _err

\* the final query of line 194 placed right after the handler loop
AfterHandlersRequery == "requery"

\* the statement after the loop of line 181: the loop of line 190
AfterHandlers == "wipe"

\* lines 170-171 without the return
GivesUpNever(res) == FALSE

\* lines 170-171: does the loop give up after this recursive call
GivesUp(res) == ~res

(***************************************************************************)
(* The entry points.                                                       *)
(***************************************************************************)
NoResult == [returned |-> FALSE, res |-> FALSE, errors |-> <<>>, via |-> "none"]

\* clear_holders(device) is called, by check_clear at line 206 or by another
\* caller.  The walk does not depend on its caller, so which one it is shows
\* only when the walk returns to it.
Call(device) ==
    /\ status = "idle"
    /\ status' = "running"
    /\ entry' = "none"
    /\ arg' = device
    /\ stack' = <<NewFrame(device)>>
    /\ UNCHANGED <<fsvars, result, fault, logged, cmds, forgiven, vanished, past>>

\* how a top-level call ended
Outcome ==
    [arg |-> arg, status |-> status, entry |-> entry, result |-> result,
     fault |-> fault, ncmds |-> Len(cmds)]

\* The entry point is called once more with the same device after the call
\* before it has ended.  Line 138 makes a new catcher and every frame of the
\* call before is gone; what LOG.warn wrote and the commands that ran stay.
CallAgain ==
    /\ status \in {"returned", "raised"}
    /\ Len(past) + 1 < MaxCalls
    /\ past' = Append(past, Outcome)
    /\ status' = "running"
    /\ entry' = "none"
    /\ result' = NoResult
    /\ fault' = NoExc
    /\ forgiven' = <<>>
    /\ stack' = <<NewFrame(arg)>>
    /\ UNCHANGED <<fsvars, arg, logged, cmds, vanished>>

(***************************************************************************)
(* clear_holders, lines 140-153: resolve the device, list its holders,     *)
(* return (True, caught) if there is none.                                 *)
(***************************************************************************)
Enter ==
    /\ status = "running"
    /\ Top.pc = "enter"
    /\ LET f == Top
           path == sys_block_path(f.device)
           c0 == IF path.raised = NoExc THEN <<>>
                 ELSE ForgiveIoError(<<>>, path.raised).caught
           q == get_holders(f.device)
           c1 == c0 \o q.errs
       IN  IF q.raised # NoExc
           THEN /\ Raise(q.raised)
                /\ UNCHANGED forgiven
           ELSE IF q.names = <<>>
           THEN /\ stack' = SetTop([f EXCEPT !.pc = "return", !.res = TRUE,
                                             !.caught = c1,
                                             !.via = "no holders"])
                /\ forgiven' = forgiven \o c1
                /\ UNCHANGED <<status, fault, result, logged>>
           ELSE /\ stack' = SetTop([f EXCEPT !.pc = "loop",
                                             !.holders = q.names,
                                             !.i = 1, !.caught = c1])
                /\ forgiven' = forgiven \o c1
                /\ UNCHANGED <<status, fault, result, logged>>
    /\ UNCHANGED <<fsvars, entry, arg, cmds, vanished, past>>

(***************************************************************************)
(* Lines 160-168: the recursive call on holders[i].                        *)
(***************************************************************************)
\* the recursive call with a guard: a holder whose call is already on the
\* stack is taken as cleared
RecurseGuarded ==
    /\ status = "running"
    /\ Top.pc = "loop"
    /\ Len(stack) < MaxDepth
    /\ LET h == holder_realpath(Top.device, Top.holders[Top.i])
       IN  stack' = Append(stack,
                           IF \E k \in 1..Len(stack) : stack[k].device = h
                           THEN [NewFrame(h) EXCEPT !.pc = "return",
                                                    !.res = TRUE,
                                                    !.via = "no holders"]
                           ELSE NewFrame(h))
    /\ UNCHANGED <<fsvars, status, entry, arg, result, fault, logged, cmds,
                   forgiven, vanished, past>>

Recurse ==
    /\ status = "running"
    /\ Top.pc = "loop"
    /\ Len(stack) < MaxDepth
    /\ stack' = Append(stack,
                       NewFrame(holder_realpath(Top.device, Top.holders[Top.i])))
    /\ UNCHANGED <<fsvars, status, entry, arg, result, fault, logged, cmds,
                   forgiven, vanished, past>>

(***************************************************************************)
(* Lines 168-171 in the caller, when the recursive call returns.           *)
(***************************************************************************)
ReturnToCaller ==
    /\ status = "running"
    /\ Len(stack) > 1
    /\ Top.pc = "return"
    /\ LET child == Top
           f == stack[Len(stack) - 1]
           caught == Extend(f.caught, child.caught)
           results == Append(f.results, child.res)
           g == IF GivesUp(child.res)
                THEN [f EXCEPT !.pc = "return", !.res = FALSE,
                               !.caught = caught, !.results = results,
                               !.via = "holder failed"]
                ELSE IF f.i < Len(f.holders)
                THEN [f EXCEPT !.i = f.i + 1, !.caught = caught,
                               !.results = results]
                ELSE [f EXCEPT !.pc = "handlers", !.i = f.i + 1,
                               !.todo = LayerTypes, !.caught = caught,
                               !.results = results]
       IN  stack' = Append(SubSeq(stack, 1, Len(stack) - 2), g)
    /\ UNCHANGED <<fsvars, status, entry, arg, result, fault, logged, cmds,
                   forgiven, vanished, past>>

(***************************************************************************)
(* Lines 181-186: the loop over holder_types.items().  The order of a      *)
(* dict's items is not fixed by the language the module was written for,   *)
(* so any type not yet visited can be next.  A turn for a type whose       *)
(* marker is absent does nothing, so a step is the turns up to and with    *)
(* the next handler call, or the turns to the end of the loop.             *)
(***************************************************************************)
\* the types still to visit whose marker is there
Pending(f) == {t \in f.todo : marker_exists(f.device, t)}

HandlerStep(type_name, exit_code) ==
    /\ status = "running"
    /\ Top.pc = "handlers"
    /\ type_name \in Pending(Top)
    /\ LET f == Top
           todo == f.todo \ {type_name}
           out == Handler(type_name, f.device, exit_code)
       IN  /\ cmds' = cmds \o out.ran
           /\ IF out.raised # NoExc
              THEN Raise(out.raised) /\ UNCHANGED forgiven
              ELSE IF out.ret = None
              \* (wipe_cmd, _err) = None
              THEN Raise(TypeError(f.device)) /\ UNCHANGED forgiven
              ELSE /\ forgiven' = forgiven \o out.ret[2]
                   /\ stack' = SetTop(
                        [f EXCEPT !.todo = todo,
                                  !.caught = f.caught \o out.ret[2],
                                  !.wipe_cmds =
                                      IF out.ret[1] # None
                                      THEN Append(f.wipe_cmds, out.ret[1])
                                      ELSE f.wipe_cmds,
                                  !.ran = Append(f.ran, type_name)])
                   /\ UNCHANGED <<status, fault, result, logged>>
    /\ UNCHANGED <<fsvars, entry, arg, vanished, past>>

\* no marker of a type still to visit is there: the loop of line 181 ends
HandlersDone ==
    /\ status = "running"
    /\ Top.pc = "handlers"
    /\ Pending(Top) = {}
    /\ stack' = SetTop([Top EXCEPT !.todo = {}, !.pc = AfterHandlers])
    /\ UNCHANGED <<fsvars, status, entry, arg, result, fault, logged, cmds,
                   forgiven, vanished, past>>

(***************************************************************************)
(* Lines 190-191: the loop over wipe_cmds does nothing with them.          *)
(***************************************************************************)
Wipe ==
    /\ status = "running"
    /\ Top.pc = "wipe"
    /\ stack' = SetTop([Top EXCEPT !.pc = "requery", !.swept = TRUE])
    /\ UNCHANGED <<fsvars, status, entry, arg, result, fault, logged, cmds,
                   forgiven, vanished, past>>

(***************************************************************************)
(* Lines 194-196: list the holders again and return the verdict.           *)
(***************************************************************************)
Requery ==
    /\ status = "running"
    /\ Top.pc = "requery"
    /\ LET f == Top
           q == get_holders(f.device)
       IN  IF q.raised # NoExc
           THEN Raise(q.raised) /\ UNCHANGED forgiven
           ELSE /\ forgiven' = forgiven \o q.errs
                /\ stack' = SetTop(
                     [f EXCEPT !.pc = "return",
                               !.res = FinalVerdict(q.names, q.errs),
                               !.caught = f.caught \o q.errs,
                               !.via = "requery",
                               !.rq = [names |-> q.names, errs |-> q.errs],
                               !.nbefore = Len(f.caught)])
                /\ UNCHANGED <<status, fault, result, logged>>
    /\ UNCHANGED <<fsvars, entry, arg, cmds, vanished, past>>

(***************************************************************************)
(* The end of the top-level call.                                          *)
(***************************************************************************)

Returned(f) ==
    [returned |-> TRUE, res |-> f.res, errors |-> f.caught, via |-> f.via]

\* line 210: the loop variable e of line 207 is what the message is
\* formatted with; it is unbound when _err is empty
CheckClearFault(device, _err) ==
    IF Len(_err) = 0
    THEN UnboundLocalError("e", device)
    ELSE Exc("OSError", "could not clear holders for device", None, 0,
             StrExc(_err[Len(_err)]))

\* the top-level clear_holders returns its pair to a caller other than
\* check_clear
ClearHoldersReturn ==
    /\ status = "running"
    /\ Len(stack) = 1
    /\ Top.pc = "return"
    /\ entry' = "clear_holders"
    /\ status' = "returned"
    /\ result' = Returned(Top)
    /\ stack' = <<>>
    /\ UNCHANGED <<fsvars, arg, fault, logged, cmds, forgiven, vanished, past>>

\* check_clear, lines 206-210
CheckClearReturn ==
    /\ status = "running"
    /\ Len(stack) = 1
    /\ Top.pc = "return"
    /\ entry' = "check_clear"
    /\ result' = Returned(Top)
    /\ logged' = logged \o Top.caught
    /\ IF ~Top.res
       THEN /\ status' = "raised"
            /\ fault' = CheckClearFault(arg, Top.caught)
       ELSE /\ status' = "returned"
            /\ UNCHANGED fault
    /\ stack' = <<>>
    /\ UNCHANGED <<fsvars, arg, cmds, forgiven, vanished, past>>

(***************************************************************************)
(* The rest of the system (udev, the kernel) removes a device while the    *)
(* walk runs: its sysfs entry goes, and with it the links to it in the     *)
(* holders directories of the devices it held.  A removal shows to the     *)
(* walk at its next read of sysfs, so it is taken right before a step that *)
(* reads sysfs, and it is a removal of a device the walk is in or has      *)
(* listed as a holder.                                                     *)
(***************************************************************************)
ReadsSysfs == Top.pc \in {"enter", "handlers", "requery"}

InWalk(n) ==
    \E k \in 1..Len(stack) :
        n = stack[k].device \/ n \in Entries(stack[k].holders)

Vanish(n) ==
    /\ status = "running"
    /\ ReadsSysfs
    /\ InWalk(n)
    /\ vanished < MaxVanish
    /\ exists[n]
    /\ vanished' = vanished + 1
    /\ exists' = [exists EXCEPT ![n] = FALSE]
    /\ holders' = [m \in Nodes |->
                       IF m = n THEN <<>> ELSE Without(holders[m], n)]
    /\ hdir' = [hdir EXCEPT ![n] = FALSE]
    /\ markers' = [markers EXCEPT ![n] = {}]
    /\ dmfile' = [dmfile EXCEPT ![n] = NoFile]
    /\ UNCHANGED <<stack, status, entry, arg, result, fault, logged, cmds,
                   forgiven, past>>

\* The removal of a device in progress: its holders directory is gone
\* while its sysfs entry still resolves.  It is the removal of a device the
\* walk is in: on a device the walk has yet to enter it shows as an absent
\* holders directory does from the start.
Unlist(n) ==
    /\ status = "running"
    /\ ReadsSysfs
    /\ \E k \in 1..Len(stack) : n = stack[k].device
    /\ vanished < MaxVanish
    /\ exists[n]
    /\ hdir[n]
    /\ vanished' = vanished + 1
    /\ holders' = [holders EXCEPT ![n] = <<>>]
    /\ hdir' = [hdir EXCEPT ![n] = FALSE]
    /\ UNCHANGED <<exists, markers, dmfile, stack, status, entry, arg, result,
                   fault, logged, cmds, forgiven, past>>

(***************************************************************************)
(* The initial sysfs tree: every device is present, with at most           *)
(* MaxEntries holder links and layer markers; a dm marker comes with a     *)
(* dm/name file that is readable or not; at most one device without        *)
(* holders lacks its holders directory.  The walk reads nothing of a       *)
(* device it cannot come to from the one it is called with, so those       *)
(* devices are left bare; the device names are interchangeable, so the     *)
(* entry points are called with "sda" or with a reference to no device.    *)
(***************************************************************************)
Edges(h) == {e \in Nodes \X Nodes : e[2] \in Entries(h[e[1]])}

AllListings == UNION {Listings(S) : S \in SUBSET Nodes}

RECURSIVE ReachIn(_, _, _)
ReachIn(h, S, k) ==
    IF k = 0 THEN S
    ELSE ReachIn(h, S \cup UNION {Entries(h[n]) : n \in S}, k - 1)

\* the devices the walk from root can come to
Reach(h, root) == ReachIn(h, {root}, Cardinality(Nodes))

\* the device the entry points are called with, or a reference to none
Roots == {"sda", NoDevice}

Marks(m) == {e \in Nodes \X LayerTypes : e[2] \in m[e[1]]}

Init ==
    /\ exists = [n \in Nodes |-> TRUE]
    /\ holders \in {h \in [Nodes -> AllListings] :
                        Cardinality(Edges(h)) <= MaxEntries}
    /\ hdir \in {d \in [Nodes -> BOOLEAN] :
                     /\ \A n \in Nodes : ~d[n] => holders[n] = <<>>
                     /\ \A n, m \in Nodes : ~d[n] /\ ~d[m] => n = m}
    /\ markers \in {m \in [Nodes -> SUBSET LayerTypes] :
                        Cardinality(Edges(holders)) + Cardinality(Marks(m))
                            <= MaxEntries}
    /\ dmfile \in {f \in [Nodes -> Contents \cup {NoFile}] :
                       \A n \in Nodes : "dm" \notin markers[n] => f[n] = NoFile}
    /\ \A n \in Nodes \ Reach(holders, "sda") :
           holders[n] = <<>> /\ markers[n] = {} /\ hdir[n]
    /\ stack = <<>>
    /\ status = "idle"
    /\ entry = "none"
    /\ arg = NoDevice
    /\ result = NoResult
    /\ fault = NoExc
    /\ logged = <<>>
    /\ cmds = <<>>
    /\ forgiven = <<>>
    /\ vanished = 0
    /\ past = <<>>

\* the steps of a call that has begun
WalkStep ==
    \/ Enter
    \/ Recurse
    \/ ReturnToCaller
    \/ \E t \in LayerTypes, c \in ExitCodes : HandlerStep(t, c)
    \/ HandlersDone
    \/ Wipe
    \/ Requery
    \/ ClearHoldersReturn
    \/ CheckClearReturn

\* the walk itself, on a sysfs tree that nothing else changes
Walk ==
    \/ \E d \in Roots : Call(d)
    \/ WalkStep

\* the walk, and the entry point called again when it has ended
WalkTwice ==
    \/ Walk
    \/ CallAgain

Next ==
    \/ Walk
    \/ \E n \in Nodes : Vanish(n)
    \/ \E n \in Nodes : Unlist(n)

\* the walk alone
Spec == Init /\ [][Walk]_vars

\* the walk while the rest of the system removes devices
SpecEnv == Init /\ [][Next]_vars

\* the entry point called up to MaxCalls times in succession
SpecTwice == Init /\ [][WalkTwice]_vars

\* the walk alone with the interpreter running: Python runs the call to its
\* end, one statement after the other, so a step that can be taken is taken
SpecFair == Init /\ [][Walk]_vars /\ WF_vars(WalkStep)

(***************************************************************************)
(* Properties.                                                             *)
(***************************************************************************)
Frames == {stack[k] : k \in 1..Len(stack)}

Ended == status \in {"returned", "raised"}

\* the frame has come to the loop over holder_types
AtHandlers(f) ==
    f.pc \in {"handlers", "wipe", "requery"} \/ f.ran # <<>> \/ f.via = "requery"

\* the caught lists of the frames, the outermost first
RECURSIVE CaughtOf(_)
CaughtOf(st) ==
    IF st = <<>> THEN <<>> ELSE Head(st).caught \o CaughtOf(Tail(st))

\* a dm/name of the form group-volume
ValidName(name) == Len(name) = 2 /\ name[1] # "" /\ name[2] # ""

\* C1: bottom-up.  A frame comes to its handlers only when the recursive
\* call on every holder of its snapshot has returned success, and a frame
\* one of whose recursive calls returned failure has invoked no handler and
\* returns failure.
C1_BottomUp ==
    \A f \in Frames :
        /\ AtHandlers(f) =>
               /\ Len(f.results) = Len(f.holders)
               /\ \A j \in 1..Len(f.results) : f.results[j]
        /\ (\E j \in 1..Len(f.results) : ~f.results[j]) =>
               /\ f.pc = "return"
               /\ f.via = "holder failed"
               /\ ~f.res
               /\ f.ran = <<>>
               /\ f.todo = {}
               /\ f.wipe_cmds = <<>>

\* C1 witness: a handler has run in a frame after two recursive calls
C1_Witness ==
    \E f \in Frames : Len(f.holders) = 2 /\ Len(f.results) = 2 /\ f.ran # <<>>

\* C2: a call that returns from its final holder query returns success
\* exactly when that query found no holder and recorded no error, whatever
\* was caught before, and the log it returns is everything caught so far.
C2_FinalVerdict ==
    /\ \A f \in Frames :
           f.via = "requery" =>
               /\ f.pc = "return"
               /\ f.res = (Len(f.rq.names) = 0 /\ Len(f.rq.errs) = 0)
               /\ f.caught = SubSeq(f.caught, 1, f.nbefore) \o f.rq.errs
    /\ (stack # <<>> /\ Top.via = "requery") => CaughtOf(stack) = forgiven

\* C2 witness: success from the final query although errors were caught
\* earlier in the walk
C2_Witness ==
    \E f \in Frames : f.via = "requery" /\ f.res /\ f.nbefore > 0

\* C3: a step that runs lvremove with exit status 5 leaves the walk running
\* in the same frame, with the failure appended to its log and no wipe
\* action added; with any other nonzero status it ends the top-level call
\* with the ProcessExecutionError.
C3_ExitCodes ==
    [][cmds' # cmds =>
          LET c == cmds'[Len(cmds')]
          IN  /\ c.exit = 5 =>
                     /\ status' = "running"
                     /\ Len(stack') = Len(stack)
                     /\ Top'.pc = "handlers"
                     /\ Top'.wipe_cmds = Top.wipe_cmds
                     /\ Top'.caught # <<>>
                     /\ Top'.caught[Len(Top'.caught)] =
                            ProcessExecutionError(c.node, 5)
              /\ c.exit \notin {0, 5} =>
                     /\ status' = "raised"
                     /\ stack' = <<>>
                     /\ fault' = ProcessExecutionError(c.node, c.exit)]_vars

\* C3 witness: after lvremove exited 5 the call went on to its final holder
\* query and returned
C3_Witness ==
    \E f \in Frames :
        /\ f.via = "requery"
        /\ \E j \in 1..Len(f.caught) :
               f.caught[j] = ProcessExecutionError(f.device, 5)

\* C4: check_clear logs every error clear_holders returned; when
\* clear_holders reports failure it raises "could not clear holders" about
\* the device it was called with, and when it reports success it raises
\* nothing.
C4_CheckClearFault ==
    (Ended /\ entry = "check_clear") =>
        /\ logged = result.errors
        /\ ~result.res =>
               /\ status = "raised"
               /\ fault.type = "OSError"
               /\ fault.what = "could not clear holders for device"
               /\ fault.about = StrDevice(arg)
        /\ result.res => status = "returned" /\ fault = NoExc

\* an lvremove of the walk exited with a status other than 0 and 5
FatalExit == \E k \in 1..Len(cmds) : cmds[k].exit \notin {0, 5}

\* C5 as stated: after lvremove exits with a status other than 0 and 5 the
\* call ends with the "could not clear holders" fault about the device it
\* was called with, the collected errors logged.
C5_TerminalFault ==
    (Ended /\ FatalExit) =>
        /\ status = "raised"
        /\ fault.type = "OSError"
        /\ fault.what = "could not clear holders for device"
        /\ fault.about = StrDevice(arg)
        /\ logged = forgiven

\* C5 as amended: once lvremove has exited with a status other than 0 and 5
\* the whole walk is over, the entry point has ended with that
\* ProcessExecutionError itself, no clear_holders call has returned a
\* verdict to the entry point and nothing has been logged.
C5_Propagates ==
    FatalExit =>
        /\ status = "raised"
        /\ stack = <<>>
        /\ fault = ProcessExecutionError(cmds[Len(cmds)].node,
                                         cmds[Len(cmds)].exit)
        /\ cmds[Len(cmds)].exit \notin {0, 5}
        /\ result = NoResult
        /\ logged = <<>>

\* C5 witness: the fatal lvremove ran in a recursive call, on a holder of
\* the device the entry point was called with
C5_Witness ==
    /\ FatalExit
    /\ status = "raised"
    /\ cmds[Len(cmds)].node # arg

\* C6: get_holders never raises: the call that clear_holders is about to
\* make of it lets no exception escape, and no entry point ends with the
\* exception that only get_holders raises.
C6_GetHoldersNeverRaises ==
    /\ (status = "running" /\ Top.pc \in {"enter", "requery"}) =>
           get_holders(Top.device).raised = NoExc
    /\ ~(status = "raised" /\ fault.type = "UnboundLocalError"
                           /\ fault.what = "sysfs_path")

\* C7 as stated: a call that found no holder at its first query, the
\* holders directory being empty or absent, returns success with nothing in
\* its log.
C7_AbsenceNoError ==
    \A f \in Frames : f.via = "no holders" => f.res /\ f.caught = <<>>

\* C7 as amended: a call that found no holder at its first query returns
\* success; its log is empty when the holders directory is there and empty,
\* and holds exactly the listing failure when the directory is absent, as
\* does the error list get_holders returns.
C7_AbsenceRecorded ==
    /\ \A f \in Frames :
           f.via = "no holders" =>
               /\ f.res
               /\ f.caught = IF hdir[f.device] THEN <<>>
                             ELSE <<IoError("listdir", f.device)>>
    /\ \A n \in Nodes :
           (exists[n] /\ holders[n] = <<>>) =>
               /\ get_holders(n).raised = NoExc
               /\ get_holders(n).names = <<>>
               /\ get_holders(n).errs = IF hdir[n] THEN <<>>
                                        ELSE <<IoError("listdir", n)>>

\* C7 witness: a call has returned success on a device without holders
\* directory
C7_Witness ==
    \E f \in Frames : f.via = "no holders" /\ ~hdir[f.device]

\* C8: when the device given to clear_holders does not resolve, the call
\* returns success with the failure in its log and runs no command.
C8_UnresolvedReturnsTrue ==
    (Ended /\ arg = NoDevice) =>
        /\ status = "returned"
        /\ result.res
        /\ result.errors # <<>>
        /\ cmds = <<>>

\* C9: on a device whose dm/name is missing or not of the form
\* group-volume the device-mapper handler runs no lvremove and raises
\* nothing.
C9_InvalidNameAborts ==
    /\ \A k \in 1..Len(cmds) : ValidName(dmfile[cmds[k].node])
    /\ ~(status = "raised" /\ fault.type = "UnboundLocalError"
                           /\ fault.what = "vg_name")

\* C10: with a dm/name group-volume and lvremove exiting 0, the handler
\* has run lvremove --force --force group/volume and returns a wipe action
\* and no error.
C10_ValidNameRemoved ==
    /\ \A k \in 1..Len(cmds) :
           LET name == dmfile[cmds[k].node]
           IN  ValidName(name) =>
                   cmds[k].argv = <<"lvremove", "--force", "--force",
                                    <<name[1], "/", name[2]>>>>
    /\ \A f \in Frames :
           (/\ "dm" \in Entries(f.ran)
            /\ ValidName(dmfile[f.device])
            /\ \E k \in 1..Len(cmds) :
                   cmds[k].node = f.device /\ cmds[k].exit = 0) =>
               /\ f.wipe_cmds # <<>>
               /\ \A j \in 1..Len(f.caught) : f.caught[j].node # f.device

\* the step is a call of shutdown_lvm that came to line 86: the handler
\* returned to the loop of line 181, or util.subp's failure left it
DmHandlerRan ==
    /\ status = "running"
    /\ Top.pc = "handlers"
    /\ \/ /\ status' = "running"
          /\ Len(stack') = Len(stack)
          /\ Top'.ran = Append(Top.ran, "dm")
       \/ /\ status' = "raised"
          /\ fault'.type = "ProcessExecutionError"

\* C11: a step runs at most one command; a call of the device-mapper
\* handler on a device whose dm/name has the form group-volume runs exactly
\* one; and every command of the walk is lvremove --force --force on a
\* path of the form group/volume, never a command on a volume group.
C11_OnlyLvremove ==
    [][/\ Len(cmds') \in {Len(cmds), Len(cmds) + 1}
       /\ SubSeq(cmds', 1, Len(cmds)) = cmds
       /\ (DmHandlerRan /\ ValidName(dmfile[Top.device])) =>
              /\ Len(cmds') = Len(cmds) + 1
              /\ cmds'[Len(cmds')].node = Top.device
       /\ \A k \in 1..Len(cmds') :
              /\ Len(cmds'[k].argv) = 4
              /\ SubSeq(cmds'[k].argv, 1, 3) = <<"lvremove", "--force", "--force">>
              /\ Len(cmds'[k].argv[4]) = 3
              /\ cmds'[k].argv[4][2] = "/"]_vars

\* C11 witness: the handler has returned on a device whose dm/name is
\* group-volume, after its one lvremove
C11_Witness ==
    \E f \in Frames :
        /\ "dm" \in Entries(f.ran)
        /\ ValidName(dmfile[f.device])
        /\ Len(cmds) = 1
        /\ cmds[1].node = f.device

\* C12: the bcache and md handlers report success: a call that finds one of
\* their markers on its device goes on to its final holder query with that
\* handler run, no command issued and nothing added to the log by it, and
\* no entry point ends with the fault of unpacking a handler's result.
C12_NoopHandlersSucceed ==
    /\ ~(status = "raised" /\ fault.type = "TypeError")
    /\ \A f \in Frames :
           f.via = "requery" =>
               \A t \in {"bcache", "md"} :
                   marker_exists(f.device, t) => t \in Entries(f.ran)

\* C13: a call whose first query found no holder has, when it returns,
\* invoked the handler of every layer type whose marker is on its device.
C13_HandlersStillRun ==
    \A f \in Frames :
        (f.pc = "return" /\ f.holders = <<>>) =>
            \A t \in LayerTypes :
                marker_exists(f.device, t) => t \in Entries(f.ran)

\* a device that resolves, with no entry in its holders directory and no
\* layer marker
Cleared(n) ==
    n \in Nodes /\ exists[n] /\ holders[n] = <<>> /\ markers[n] = {}

\* what a call on a cleared device has in its log: nothing, or the listing
\* failure when the holders directory itself is absent
ClearedLog(n) == IF hdir[n] THEN <<>> ELSE <<IoError("listdir", n)>>

C15_VanishedIsCleared ==
    \A n \in Nodes :
        ~exists[n] =>
            /\ ~(status = "raised" /\ fault.type = "UnboundLocalError"
                                   /\ fault.node = n)
            /\ \A f \in Frames :
                   (f.device = n /\ f.pc = "return") => f.res /\ f.caught # <<>>

\* the walk from n comes to a device that is among its own holders, directly
\* or through other devices
ReachesCycle(n) ==
    /\ n \in Nodes
    /\ \E m \in Reach(holders, n) :
           m \in ReachIn(holders, Entries(holders[m]), Cardinality(Nodes))

C17_FailFast ==
    [][(status = "running" /\ Top.pc = "return" /\ ~Top.res) =>
          IF Len(stack) > 1
          THEN LET f == stack[Len(stack) - 1]
               IN  /\ status' = "running"
                   /\ Len(stack') = Len(stack) - 1
                   /\ Top'.device = f.device
                   /\ Top'.pc = "return"
                   /\ ~Top'.res
                   /\ Top'.via = "holder failed"
                   /\ Top'.i = f.i
                   /\ Top'.results = Append(f.results, FALSE)
                   /\ Top'.caught = f.caught \o Top.caught
                   /\ Top'.ran = <<>>
                   /\ ~Top'.swept
                   /\ Top'.rq = NoQuery
                   /\ cmds' = cmds
          ELSE /\ stack' = <<>>
               /\ result'.returned
               /\ ~result'.res
               /\ result'.errors = Top.caught
               /\ cmds' = cmds]_vars

\* C17 witness: the outermost call is at its return of failure after the
\* call on its first holder failed, a later holder of its snapshot left
\* unvisited
C17_Witness ==
    /\ Len(stack) = 1
    /\ Top.pc = "return"
    /\ Top.via = "holder failed"
    /\ Top.i = 1
    /\ Len(Top.holders) > 1
    /\ Len(Top.results) = 1

\* s is a prefix of t
IsPrefix(s, t) == Len(s) <= Len(t) /\ SubSeq(t, 1, Len(s)) = s

\* C18: the error log of an invocation.  A call of the entry point starts
\* with an empty log; while the invocation runs, the log of the walk (the
\* logs of the frames, the outermost first) only grows at its end and is at
\* every moment the errors caught so far in the order they were caught; a
\* recursive call's log, whatever its verdict, is appended whole to its
\* caller's when it returns; and the log returned at the end is the log of
\* the walk.
C18_AppendOnlyLog ==
    [][/\ (status # "running" /\ status' = "running") =>
              CaughtOf(stack') = <<>>
       /\ (status = "running" /\ status' = "running") =>
              IsPrefix(CaughtOf(stack), CaughtOf(stack'))
       /\ status' = "running" => CaughtOf(stack') = forgiven'
       /\ (status = "running" /\ Len(stack) > 1 /\ Top.pc = "return") =>
              /\ Len(stack') = Len(stack) - 1
              /\ Top'.caught = stack[Len(stack) - 1].caught \o Top.caught
       /\ (status = "running" /\ result'.returned) =>
              result'.errors = CaughtOf(stack)]_vars

\* C18 witness: the second invocation has returned a log of one error, which
\* came from a recursive call, after the first invocation had returned a log
\* of one error too
C18_Witness ==
    /\ Len(past) = 1
    /\ Len(past[1].result.errors) = 1
    /\ status = "returned"
    /\ Len(result.errors) = 1
    /\ result.errors[1].node # arg

OneCallPerHolder ==
    /\ Len(stack) <= Cardinality(Nodes)
    /\ \A f \in Frames :
           /\ Len(f.results) <= Len(f.holders)
           /\ f.pc = "loop" => f.i = Len(f.results) + 1
           /\ f.i <= Len(f.holders) + 1

\* the entry point has returned a pair or ended with a fault
PairOrFault ==
    \/ status = "returned" /\ result.returned /\ fault = NoExc
    \/ status = "raised" /\ fault # NoExc

\* C20: on a sysfs tree that nothing else changes and in which no holder
\* cycle can be reached from the device the call is made with, each holder
\* of a snapshot gets one recursive call at most, and the call comes to an
\* end: the entry point returns a pair or ends with a fault.
C20_Terminates ==
    /\ [](~ReachesCycle(arg) => OneCallPerHolder)
    /\ [](Ended => PairOrFault)
    /\ (status = "running" /\ ~ReachesCycle(arg)) ~> Ended

\* C20 witness: a walk three calls deep has returned its pair
C20_Witness ==
    /\ status = "returned"
    /\ result.returned
    /\ ~ReachesCycle(arg)
    /\ \E n \in Entries(holders[arg]) : holders[n] # <<>>

====
